---- MODULE Spec2Model ----
(***************************************************************************)
(* A model of the two WPS processes of hawfinch/swallow:                   *)
(*   RunNAME  (src/swallow/processes/wps_run_name.py)                      *)
(*   PlotNAME (src/swallow/processes/wps_plot_name.py)                     *)
(* Strings are sequences of one-character strings.  Longitudes and         *)
(* latitudes are integers in thousandths of a degree, dates are integers   *)
(* in ticks of 1/TicksPerDay of a day.                                     *)
(***************************************************************************)
EXTENDS Integers, Sequences, FiniteSets, TLC

VARIABLES
    proc,             \* which entry point runs: "elev", "run" or "plot"
    pc,               \* position in the running function
    err,              \* the exception that ended it, "none" while none
    raised_at,        \* the position it was raised at, "none" while none
    status,           \* response.update_status calls so far: <<message, percent>>
    elevation_range,  \* translate_elevation: its argument
    elev_result,      \* translate_elevation: what it returned or raised
    request,          \* RunNAME: request.inputs
    ranges,           \* RunNAME: ranges
    domains,          \* RunNAME: domains
    params,           \* RunNAME: params
    run_name_calls,   \* RunNAME: the params of each run_name call
    run_outputs,      \* RunNAME: the response.outputs fields assigned
    plot_request,     \* PlotNAME: request.inputs
    outputs_dir,      \* PlotNAME: the files of <rundir>/outputs
    unlisted,         \* PlotNAME: the files the grouping loop has yet to visit
    groups,           \* PlotNAME: groups, group number -> staging directory
    tmpdirs,          \* the staging directories that exist, each with its files
    created,          \* the staging directories tempfile.mkdtemp ever made
    tot_plots,        \* PlotNAME: tot_plots
    plots_made,       \* PlotNAME: plots_made
    oldper,           \* PlotNAME: oldper
    cur,              \* PlotNAME: groupnum of the group being plotted, -1 if none
    plotted,          \* PlotNAME: the group numbers whose loop body has ended
    listing,          \* PlotNAME: files of tmpdir the file loop has yet to visit
    pending,          \* PlotNAME: time buckets left to render before the next file
    last_render,      \* what the last drawMap call did, "none" before the first
    outdir,           \* plotoptions['outdir']: whether it exists, and its files
    result,           \* PlotNAME: response.outputs['FileContents']
    asked,            \* PlotNAME: the summarise value the request came with
    renders,          \* the drawMap calls so far: group, column drawn, day summed
    absent            \* files of the group read and found without the timestamp

elevVars == <<elevation_range, elev_result>>
runVars  == <<request, ranges, domains, params, run_name_calls, run_outputs>>
plotIn   == <<plot_request, outputs_dir>>
grpVars  == <<unlisted, groups, tmpdirs, created>>
progVars == <<tot_plots, plots_made, oldper>>
loopVars == <<cur, plotted, listing, pending>>
drawVars == <<last_render, outdir>>
histVars == <<asked, renders, absent>>
plotVars == <<plotIn, grpVars, progVars, loopVars, drawVars, result, histVars>>
ctl      == <<pc, err, raised_at>>
vars     == <<proc, ctl, status, elevVars, runVars, plotVars>>

(***************************************************************************)
(* Bounds of the model.                                                    *)
(***************************************************************************)
MaxLen == 5        \* longest elevation-range string explored on its own
MaxElev == 10      \* largest elevation bound formatted into a request
MaxRanges == 2     \* most elevationOut values in a request (the code allows 4)
TicksPerDay == 2   \* clock ticks in a day: the granularity of a dateTime
MaxFiles == 3      \* most files in <rundir>/outputs
MaxDays == 2       \* most distinct days among the files of one group
MaxTot == 1        \* largest of the small values get_num_dates returns
ManyDates == 100   \* a value of get_num_dates no single render moves the percentage by
MaxBuckets == 2    \* most weeks or months of a group that hold files
MaxCols == 1       \* most time buckets (columns) in one raw file
MaxNames == 2      \* distinct image file names drawMap may write

(***************************************************************************)
(* Python string and integer primitives.                                   *)
(***************************************************************************)
Digits == <<"0", "1", "2", "3", "4", "5", "6", "7", "8", "9">>

IsDigit(c) == \E d \in 1..10 : Digits[d] = c

DigitVal(c) == (CHOOSE d \in 1..10 : Digits[d] = c) - 1

\* c in s
Contains(s, c) == \E i \in 1..Len(s) : s[i] = c

\* s.split(sep), sep one character: one part more than there are separators
RECURSIVE Split(_, _)
Split(s, sep) ==
    IF ~Contains(s, sep) THEN <<s>>
    ELSE LET i == CHOOSE k \in 1..Len(s) :
                      s[k] = sep /\ \A j \in 1..(k - 1) : s[j] # sep
         IN  <<SubSeq(s, 1, i - 1)>> \o Split(SubSeq(s, i + 1, Len(s)), sep)

\* the digits of s after an optional sign
Unsigned(s) == IF Len(s) > 0 /\ s[1] \in {"+", "-"} THEN Tail(s) ELSE s

\* int(s) does not raise ValueError
IntParses(s) ==
    /\ Len(Unsigned(s)) > 0
    /\ \A i \in 1..Len(Unsigned(s)) : IsDigit(Unsigned(s)[i])

RECURSIVE DigitsValue(_)
DigitsValue(s) ==
    IF Len(s) = 0 THEN 0
    ELSE 10 * DigitsValue(SubSeq(s, 1, Len(s) - 1)) + DigitVal(s[Len(s)])

\* int(s), where IntParses(s)
PyInt(s) ==
    IF Len(s) > 0 /\ s[1] = "-" THEN 0 - DigitsValue(Unsigned(s))
    ELSE DigitsValue(Unsigned(s))

(***************************************************************************)
(* RunNAME.translate_elevation                                             *)
(***************************************************************************)
Raised(kind) == [kind |-> kind, value |-> <<>>]
Returned(v) == [kind |-> "ok", value |-> v]

ElevationOrderOK(mini, maxi) == mini < maxi

translate_elevation(s) ==
    IF ~Contains(s, "-") THEN Raised("InvalidParameterValue")
    ELSE LET parts == Split(s, "-") IN
         IF Len(parts) # 2 THEN Raised("ValueError")      \* mini, maxi = ...
         ELSE IF ~(IntParses(parts[1]) /\ IntParses(parts[2]))
              THEN Raised("InvalidParameterValue")
         ELSE LET mini == PyInt(parts[1])
                  maxi == PyInt(parts[2])
              IN  IF ~ElevationOrderOK(mini, maxi)
                      THEN Raised("InvalidParameterValue")
                  ELSE IF mini < 0 \/ maxi < 0
                      THEN Raised("InvalidParameterValue")
                  ELSE Returned(<<mini, maxi>>)

(***************************************************************************)
(* RunNAME._handler: the tests it makes, as functions of the request  *)
(***************************************************************************)
Deg(d) == d * 1000

NarrowedMinLon == -179875
NarrowedMaxLon == 179900
SpanLimitDays == 93
MaxRunDays == 20
HoursPerDay == 24

Days(n) == n * TicksPerDay

\* lines 133-140, and the same four tests at lines 121-128 of PlotNAME
BBoxError(r) ==
    IF r.min_lon < Deg(-180) THEN "InvalidParameterValue"
    ELSE IF r.max_lon > Deg(180) THEN "InvalidParameterValue"
    ELSE IF r.min_lat < Deg(-90) THEN "InvalidParameterValue"
    ELSE IF r.max_lat > Deg(90) THEN "InvalidParameterValue"
    ELSE "none"

\* the box narrowed as soon as one longitude bound is at its limit
DomainsEitherBound(r) ==
    LET d == <<r.min_lat, r.min_lon, r.max_lat, r.max_lon>>
    IN  IF d[2] = Deg(-180) \/ d[4] = Deg(180)
        THEN [d EXCEPT ![2] = NarrowedMinLon, ![4] = NarrowedMaxLon]
        ELSE d

\* lines 143-155
Domains(r) ==
    LET d == <<r.min_lat, r.min_lon, r.max_lat, r.max_lon>>
    IN  IF d[2] = Deg(-180) /\ d[4] = Deg(180)
        THEN [d EXCEPT ![2] = NarrowedMinLon, ![4] = NarrowedMaxLon]
        ELSE d

\* lines 157-168
Params(r, rngs, doms) ==
    [elevationOut |-> rngs, domain |-> doms,
     min_lon |-> r.min_lon, max_lon |-> r.max_lon,
     min_lat |-> r.min_lat, max_lat |-> r.max_lat,
     startdate |-> r.startdate, enddate |-> r.enddate,
     time |-> r.time, timeFmt |-> r.timeFmt]

\* lines 171-175
DateError(p) ==
    IF p.startdate >= p.enddate + Days(1) THEN "InvalidParameterValue"
    ELSE IF (p.enddate + Days(1)) - p.startdate >= Days(SpanLimitDays)
        THEN "InvalidParameterValue"
    ELSE "none"

\* the limit itself refused
DurationErrorAtLimit(p) ==
    IF p.timeFmt = "days"
    THEN (IF p.time >= MaxRunDays THEN "InvalidParameterValue" ELSE "none")
    ELSE (IF p.time >= MaxRunDays * HoursPerDay
              THEN "InvalidParameterValue" ELSE "none")

\* lines 178-183
DurationError(p) ==
    IF p.timeFmt = "days"
    THEN (IF p.time > MaxRunDays THEN "InvalidParameterValue" ELSE "none")
    ELSE (IF p.time > MaxRunDays * HoursPerDay
              THEN "InvalidParameterValue" ELSE "none")

\* the results of translate_elevation placed last first
TranslatedReversed(r) ==
    [i \in 1..Len(r.elevationOut) |->
        translate_elevation(r.elevationOut[Len(r.elevationOut) + 1 - i])]

\* lines 126-128: the results of translate_elevation, in request order
Translated(r) ==
    [i \in 1..Len(r.elevationOut) |-> translate_elevation(r.elevationOut[i])]

\* the index of the first elevationOut value that raises, 0 when none does
FirstRaise(r) ==
    LET bad == {i \in 1..Len(r.elevationOut) : Translated(r)[i].kind # "ok"}
    IN  IF bad = {} THEN 0 ELSE CHOOSE i \in bad : \A j \in bad : i <= j

(***************************************************************************)
(* The requests explored                                                   *)
(***************************************************************************)
RECURSIVE Decimal(_)
\* str(n) for n >= 0
Decimal(n) ==
    IF n < 10 THEN <<Digits[n + 1]>>
    ELSE Decimal(n \div 10) \o <<Digits[(n % 10) + 1]>>

\* the string "a-b"
RangeString(a, b) == Decimal(a) \o <<"-">> \o Decimal(b)

ElevValues == {0, 2, MaxElev - 1, MaxElev}

WellFormedRanges == {RangeString(a, b) : a \in ElevValues, b \in ElevValues}

MalformedRanges ==
    { <<"1", "0">>,                        \* no separator
      <<"x", "-", "1">>,                   \* a bound that is no number
      <<"-", "5", "-", "1", "0">>,         \* a negative bound
      <<"0", "-", "1", "-", "2">>,         \* two separators
      <<"1", "-">> }                       \* a missing bound

ElevLists ==
    UNION { [1..n -> WellFormedRanges \cup MalformedRanges] : n \in 1..MaxRanges }

LonValues == {Deg(-181), Deg(-180), 0, Deg(180), Deg(181)}
LatValues == {Deg(-91), Deg(-90), 0, Deg(90), Deg(91)}

StartDates == 0..Days(1)
EndDates == (0..(Days(1) + 1)) \cup ((Days(92) - 1)..(Days(93) + 1))

Durations ==
    {1, MaxRunDays, MaxRunDays + 1,
     MaxRunDays * HoursPerDay, MaxRunDays * HoursPerDay + 1}

\* the declared defaults of the inputs (lines 43-77); the dates have none
DefaultRequest ==
    [elevationOut |-> << <<"0", "-", "1", "0", "0">> >>,
     min_lon |-> Deg(-180), max_lon |-> Deg(180),
     min_lat |-> Deg(-90), max_lat |-> Deg(90),
     startdate |-> 0, enddate |-> 0,
     time |-> 1, timeFmt |-> "days"]

\* every input varied on its own, and a good and a bad value of each together
RunRequests ==
    {[DefaultRequest EXCEPT !.elevationOut = e] : e \in ElevLists}
    \cup {[DefaultRequest EXCEPT !.min_lon = a, !.max_lon = b,
                                 !.min_lat = c, !.max_lat = d] :
             a \in LonValues, b \in LonValues, c \in LatValues, d \in LatValues}
    \cup {[DefaultRequest EXCEPT !.startdate = s, !.enddate = e] :
             s \in StartDates, e \in EndDates}
    \cup {[DefaultRequest EXCEPT !.time = t, !.timeFmt = f] :
             t \in Durations, f \in {"days", "hours"}}
    \cup {[DefaultRequest EXCEPT !.elevationOut = e, !.min_lon = a,
                                 !.startdate = s, !.time = t] :
             e \in {<< <<"0", "-", "1">> >>, << <<"1", "-", "0">> >>},
             a \in {0, Deg(-181)}, s \in {0, Days(2)},
             t \in {1, MaxRunDays + 1}}

(***************************************************************************)
(* States                                                                  *)
(***************************************************************************)
NoRequest == [elevationOut |-> <<>>, min_lon |-> 0, max_lon |-> 0,
              min_lat |-> 0, max_lat |-> 0, startdate |-> 0, enddate |-> 0,
              time |-> 0, timeFmt |-> "days"]

NoParams == Params(NoRequest, <<>>, <<>>)

ElevIdle ==
    /\ elevation_range = <<>>
    /\ elev_result = Raised("none")

RunIdle ==
    /\ request = NoRequest
    /\ ranges = <<>>
    /\ domains = <<>>
    /\ params = NoParams
    /\ run_name_calls = <<>>
    /\ run_outputs = {}

NoPlotRequest == [summarise |-> "NA", timestamp |-> FALSE,
                  min_lon |-> 0, max_lon |-> 0, min_lat |-> 0, max_lat |-> 0]

NoOutdir == [exists |-> FALSE, files |-> {}]

NoResult == [format |-> "none", files |-> {}]

PlotIdle ==
    /\ plot_request = NoPlotRequest
    /\ outputs_dir = {}
    /\ unlisted = {}
    /\ groups = <<>>
    /\ tmpdirs = <<>>
    /\ created = {}
    /\ tot_plots = 0
    /\ plots_made = 0
    /\ oldper = 0
    /\ cur = -1
    /\ plotted = {}
    /\ listing = {}
    /\ pending = 0
    /\ last_render = "none"
    /\ outdir = NoOutdir
    /\ result = NoResult
    /\ asked = "none"
    /\ renders = <<>>
    /\ absent = {}

Raise(kind) ==
    /\ pc' = "raised"
    /\ err' = kind
    /\ raised_at' = pc

Goto(next) ==
    /\ pc' = next
    /\ UNCHANGED <<err, raised_at>>

(***************************************************************************)
(* translate_elevation on its own, over every short string                 *)
(***************************************************************************)
Alphabet == {"0", "1", "-", "+", "x"}

Strings == UNION { [1..n -> Alphabet] : n \in 0..MaxLen }

InitElev ==
    /\ proc = "elev"
    /\ pc = "call"
    /\ err = "none"
    /\ raised_at = "none"
    /\ status = <<>>
    /\ elevation_range \in Strings
    /\ elev_result = Raised("none")
    /\ RunIdle
    /\ PlotIdle

TranslateElevation ==
    /\ proc = "elev" /\ pc = "call"
    /\ elev_result' = translate_elevation(elevation_range)
    /\ IF elev_result'.kind = "ok"
       THEN Goto("returned")
       ELSE Raise(elev_result'.kind)
    /\ UNCHANGED <<proc, status, elevation_range, runVars, plotVars>>

NextElev == TranslateElevation

SpecElev == InitElev /\ [][NextElev]_vars

(***************************************************************************)
(* RunNAME._handler                                                        *)
(***************************************************************************)
InitRun ==
    /\ proc = "run"
    /\ pc = "ranges"
    /\ err = "none"
    /\ raised_at = "none"
    /\ status = <<>>
    /\ ElevIdle
    /\ request \in RunRequests
    /\ ranges = <<>>
    /\ domains = <<>>
    /\ params = NoParams
    /\ run_name_calls = <<>>
    /\ run_outputs = {}
    /\ PlotIdle

\* lines 126-128
TranslateRanges ==
    /\ proc = "run" /\ pc = "ranges"
    /\ IF FirstRaise(request) # 0
       THEN /\ Raise(Translated(request)[FirstRaise(request)].kind)
            /\ ranges' = [i \in 1..(FirstRaise(request) - 1) |->
                              Translated(request)[i].value]
       ELSE /\ Goto("bbox")
            /\ ranges' = [i \in 1..Len(request.elevationOut) |->
                              Translated(request)[i].value]
    /\ UNCHANGED <<proc, status, elevVars, request, domains, params,
                   run_name_calls, run_outputs,
                   plotVars>>

\* lines 133-140
CheckBBox ==
    /\ proc = "run" /\ pc = "bbox"
    /\ IF BBoxError(request) # "none"
       THEN Raise(BBoxError(request))
       ELSE Goto("params")
    /\ UNCHANGED <<proc, status, elevVars, runVars,
                   plotVars>>

\* lines 143-168
BuildParams ==
    /\ proc = "run" /\ pc = "params"
    /\ domains' = Domains(request)
    /\ params' = Params(request, ranges, domains')
    /\ Goto("dates")
    /\ UNCHANGED <<proc, status, elevVars, request, ranges,
                   run_name_calls, run_outputs,
                   plotVars>>

\* lines 171-175
CheckDates ==
    /\ proc = "run" /\ pc = "dates"
    /\ IF DateError(params) # "none"
       THEN Raise(DateError(params))
       ELSE Goto("duration")
    /\ UNCHANGED <<proc, status, elevVars, runVars,
                   plotVars>>

\* the duration test made after the first progress update
CheckDurationAfterUpdate ==
    /\ proc = "run" /\ pc = "duration"
    /\ status' = Append(status, <<"Processed parameters", 5>>)
    /\ IF DurationError(params) # "none"
       THEN Raise(DurationError(params))
       ELSE Goto("run_name")
    /\ UNCHANGED <<proc, elevVars, runVars, plotVars>>

\* lines 178-183
CheckDuration ==
    /\ proc = "run" /\ pc = "duration"
    /\ IF DurationError(params) # "none"
       THEN Raise(DurationError(params))
       ELSE Goto("processed")
    /\ UNCHANGED <<proc, status, elevVars, runVars,
                   plotVars>>

\* line 185
UpdateProcessed ==
    /\ proc = "run" /\ pc = "processed"
    /\ status' = Append(status, <<"Processed parameters", 5>>)
    /\ Goto("run_name")
    /\ UNCHANGED <<proc, elevVars, runVars,
                   plotVars>>

\* line 187: the external model returns
RunNameReturns ==
    /\ proc = "run" /\ pc = "run_name"
    /\ run_name_calls' = Append(run_name_calls, params)
    /\ Goto("outputs")
    /\ UNCHANGED <<proc, status, elevVars, request, ranges, domains,
                   params, run_outputs,
                   plotVars>>

\* line 187: the external model fails
RunNameRaises ==
    /\ proc = "run" /\ pc = "run_name"
    /\ run_name_calls' = Append(run_name_calls, params)
    /\ Raise("ExternalProcessFailure")
    /\ UNCHANGED <<proc, status, elevVars, request, ranges, domains,
                   params, run_outputs,
                   plotVars>>

\* lines 189-191
SetOutputs ==
    /\ proc = "run" /\ pc = "outputs"
    /\ run_outputs' = {"FileContents", "runid", "SummaryPlot"}
    /\ Goto("done")
    /\ UNCHANGED <<proc, status, elevVars, request, ranges, domains,
                   params, run_name_calls,
                   plotVars>>

\* lines 193-194
UpdateDone ==
    /\ proc = "run" /\ pc = "done"
    /\ status' = Append(status, <<"done", 100>>)
    /\ Goto("returned")
    /\ UNCHANGED <<proc, elevVars, runVars,
                   plotVars>>

NextRun ==
    \/ TranslateRanges
    \/ CheckBBox
    \/ BuildParams
    \/ CheckDates
    \/ CheckDuration
    \/ UpdateProcessed
    \/ RunNameReturns
    \/ RunNameRaises
    \/ SetOutputs
    \/ UpdateDone

SpecRun == InitRun /\ [][NextRun]_vars

(***************************************************************************)
(* Properties of RunNAME                                                   *)
(***************************************************************************)
\* the handler went past the test made at position `at`
Passed(at) ==
    LET order == <<"ranges", "bbox", "params", "dates", "duration",
                   "processed", "run_name", "outputs", "done", "returned">>
        Pos(x) == CHOOSE i \in 1..Len(order) : order[i] = x
    IN  Pos(at) < Pos(IF pc = "raised" THEN raised_at ELSE pc)

BoxInRange(r) ==
    /\ Deg(-180) <= r.min_lon /\ r.min_lon <= Deg(180)
    /\ Deg(-180) <= r.max_lon /\ r.max_lon <= Deg(180)
    /\ Deg(-90) <= r.min_lat /\ r.min_lat <= Deg(90)
    /\ Deg(-90) <= r.max_lat /\ r.max_lat <= Deg(90)

BoxOrdered(r) == r.min_lon < r.max_lon /\ r.min_lat < r.max_lat

\* C3: bounding-box validation accepts every box inside
\* [-180,180] x [-90,90] with min < max on both axes, and rejects every box
\* with a coordinate outside its range.
C3_BoxAcceptedIffInRange ==
    /\ proc = "run" =>
           /\ (raised_at = "bbox" =>
                  ~(BoxInRange(request) /\ BoxOrdered(request)))
           /\ (Passed("bbox") => BoxInRange(request))
    /\ proc = "plot" =>
           /\ (raised_at = "bbox" =>
                  ~(BoxInRange(plot_request) /\ BoxOrdered(plot_request)))
           /\ (pc # "bbox" /\ raised_at # "bbox" => BoxInRange(plot_request))

\* C4: a box with min_lon >= max_lon or min_lat >= max_lat is rejected before
\* the external model is invoked; none reaches run_name in params['domain'].
C4_NoDegenerateBoxReachesRunName ==
    proc = "run" =>
        /\ (Passed("bbox") => BoxOrdered(request))
        /\ \A i \in 1..Len(run_name_calls) :
               /\ run_name_calls[i].domain[2] < run_name_calls[i].domain[4]
               /\ run_name_calls[i].domain[1] < run_name_calls[i].domain[3]

DatesValid(r) ==
    /\ r.startdate <= r.enddate
    /\ (r.enddate + Days(1)) - r.startdate < Days(SpanLimitDays)

\* C5: date validation succeeds if and only if start <= end and
\* (end + 1 day) - start < 93 days, at dateTime granularity.
C5_DatesAcceptedIffValid ==
    proc = "run" =>
        /\ (raised_at = "dates" => ~DatesValid(request))
        /\ (Passed("dates") => DatesValid(request))

\* the number of "-" in s
RECURSIVE Dashes(_)
Dashes(s) ==
    IF Len(s) = 0 THEN 0
    ELSE (IF s[1] = "-" THEN 1 ELSE 0) + Dashes(Tail(s))

\* s is one of the malformed strings of the claim: no separator, more than one
\* (a negative bound is written with a second one), a bound that is no number,
\* or bounds with min >= max
Malformed(s) ==
    \/ Dashes(s) = 0
    \/ Dashes(s) > 1
    \/ \E k \in 1..Len(s) :
           /\ s[k] = "-"
           /\ LET lo == SubSeq(s, 1, k - 1)
                  hi == SubSeq(s, k + 1, Len(s))
              IN  \/ ~IntParses(lo)
                  \/ ~IntParses(hi)
                  \/ IntParses(lo) /\ IntParses(hi) /\ PyInt(lo) >= PyInt(hi)

\* C6: translate_elevation fails with InvalidInput, and with no other kind of
\* error, for every malformed elevation-range string.
C6_MalformedIsInvalidInput ==
    (proc = "elev" /\ pc # "call" /\ Malformed(elevation_range)) =>
        (pc = "raised" /\ err = "InvalidParameterValue")

\* request value i is "a-b" for integers 0 <= a < b
IsRange(i, a, b) ==
    /\ i \in 1..Len(request.elevationOut)
    /\ 0 <= a /\ a < b
    /\ request.elevationOut[i] = RangeString(a, b)

AllRanges ==
    \A i \in 1..Len(request.elevationOut) :
        \E a \in ElevValues, b \in ElevValues : IsRange(i, a, b)

\* C7: every "a-b" with integers 0 <= a < b translates to exactly (a, b), and
\* the handler passes the pairs, in request order, as params['elevationOut'].
C7_RangesTranslated ==
    (proc = "run" /\ pc # "ranges") =>
        /\ \A i \in 1..Len(ranges) : \A a \in ElevValues, b \in ElevValues :
               IsRange(i, a, b) => ranges[i] = <<a, b>>
        /\ (AllRanges => Len(ranges) = Len(request.elevationOut)
                         /\ raised_at # "ranges")
        /\ \A c \in 1..Len(run_name_calls) :
               /\ run_name_calls[c].elevationOut = ranges
               /\ Len(ranges) = Len(request.elevationOut)
               /\ \A i \in 1..Len(ranges) : ranges[i] = params.elevationOut[i]

C7_Witness ==
    /\ proc = "run"
    /\ Len(run_name_calls) = 1
    /\ Len(request.elevationOut) = 2
    /\ IsRange(1, 9, 10)
    /\ IsRange(2, 0, 2)
    /\ run_name_calls[1].elevationOut = << <<9, 10>>, <<0, 2>> >>

\* C8: a validation failure aborts the request before any external
\* invocation, progress update or output; run_name is called exactly once,
\* after the one 5% update and before the 100% update, only when every
\* validation passed.
C8_ValidationBeforeInvocation ==
    proc = "run" =>
        /\ (raised_at \in {"ranges", "bbox", "dates", "duration"} =>
               run_name_calls = <<>> /\ status = <<>> /\ run_outputs = {})
        /\ Len(run_name_calls) <= 1
        /\ (run_name_calls # <<>> =>
               /\ FirstRaise(request) = 0
               /\ BBoxError(request) = "none"
               /\ DateError(params) = "none"
               /\ DurationError(params) = "none"
               /\ Len(status) >= 1
               /\ status[1] = <<"Processed parameters", 5>>)
        /\ (run_name_calls = <<>> => status \in {<<>>, << <<"Processed parameters", 5>> >>}
                                     /\ run_outputs = {})
        /\ (Len(status) > 1 =>
               /\ status = << <<"Processed parameters", 5>>, <<"done", 100>> >>
               /\ Len(run_name_calls) = 1
               /\ pc = "returned")
        /\ (pc = "returned" => Len(status) = 2)

C8_Witness ==
    /\ proc = "run"
    /\ pc = "raised"
    /\ raised_at = "duration"
    /\ request.time = MaxRunDays + 1
    /\ run_name_calls = <<>>

\* C12: with min_lon = -180 and max_lon = 180 the domain given to run_name
\* has the longitudes -179.875 and 179.9; for every other accepted box, one
\* with a single longitude bound at its limit included, the domain holds the
\* four values of the request; the latitudes are those of the request always.
C12_FullLongitudeNarrowed ==
    proc = "run" =>
        /\ \A i \in 1..Len(run_name_calls) :
               LET d == run_name_calls[i].domain
               IN  /\ Len(d) = 4
                   /\ d[1] = request.min_lat
                   /\ d[3] = request.max_lat
                   /\ IF request.min_lon = -180000 /\ request.max_lon = 180000
                      THEN d[2] = -179875 /\ d[4] = 179900
                      ELSE d[2] = request.min_lon /\ d[4] = request.max_lon
        /\ (Passed("params") => run_name_calls = <<>> \/ domains = run_name_calls[1].domain)

\* run_name was called for the whole longitude span
C12_Witness ==
    /\ proc = "run"
    /\ Len(run_name_calls) = 1
    /\ request.min_lon = Deg(-180) /\ request.max_lon = Deg(180)
    /\ run_name_calls[1].domain =
           <<request.min_lat, NarrowedMinLon, request.max_lat, NarrowedMaxLon>>

\* C13: the duration test passes a request iff its duration is at most 20
\* days in its unit: with 'days', 20 or less passes and 21 or more is refused;
\* with 'hours', 480 or less passes and 481 or more is refused; the refusal
\* is an InvalidParameterValue.
C13_DurationWithinTwentyDays ==
    proc = "run" =>
        /\ (Passed("duration") =>
               IF request.timeFmt = "days"
               THEN request.time <= 20
               ELSE request.time <= 480)
        /\ (raised_at = "duration" =>
               /\ err = "InvalidParameterValue"
               /\ IF request.timeFmt = "days"
                  THEN request.time >= 21
                  ELSE request.time >= 481)

\* 480 hours were accepted and the external model was called
C13_Witness ==
    /\ proc = "run"
    /\ request.timeFmt = "hours"
    /\ request.time = 480
    /\ Len(run_name_calls) = 1
    /\ run_name_calls[1].time = 480

(***************************************************************************)
(* PlotNAME._handler: its inputs                                           *)
(***************************************************************************)
\* What the handler reads of a file name: whether it matches '*_group*.txt'
\* (which is also "'_group' in filename and filename.endswith('.txt')"),
\* whether it ends with 'txt', and filename[14] ("" when the name is shorter).
FileTypes ==
    << [glob |-> TRUE,  txt |-> TRUE,  ch14 |-> "1"],
       [glob |-> TRUE,  txt |-> TRUE,  ch14 |-> "2"],
       [glob |-> TRUE,  txt |-> TRUE,  ch14 |-> "x"],
       [glob |-> TRUE,  txt |-> TRUE,  ch14 |-> ""],
       [glob |-> FALSE, txt |-> TRUE,  ch14 |-> "1"],
       [glob |-> FALSE, txt |-> TRUE,  ch14 |-> "x"],
       [glob |-> FALSE, txt |-> FALSE, ch14 |-> ""] >>

File(i, t) == [name |-> i, glob |-> FileTypes[t].glob, txt |-> FileTypes[t].txt,
               ch14 |-> FileTypes[t].ch14]

\* the directories of up to MaxFiles files; names are numbered in type order,
\* which loses nothing: the handler never compares two names
Directories ==
    UNION { { {File(i, f[i]) : i \in 1..n} :
                f \in {g \in [1..n -> 1..Len(FileTypes)] :
                          \A i \in 1..(n - 1) : g[i] <= g[i + 1]} } :
            n \in 0..MaxFiles }

Summaries == {"NA", "day", "week", "month", "all"}

DefaultPlotRequest ==
    [summarise |-> "NA", timestamp |-> FALSE,
     min_lon |-> Deg(-180), max_lon |-> Deg(180),
     min_lat |-> Deg(-90), max_lat |-> Deg(90)]

DefaultDirectory == {File(1, 1)}

\* every request and directory with the default box, and the default request
\* and directory with one coordinate of the box varied
PlotInputs ==
    {<<[DefaultPlotRequest EXCEPT !.summarise = m, !.timestamp = t], d>> :
         m \in Summaries, t \in BOOLEAN, d \in Directories}
    \cup {<<[DefaultPlotRequest EXCEPT !.min_lon = v], DefaultDirectory>> :
              v \in LonValues}
    \cup {<<[DefaultPlotRequest EXCEPT !.max_lon = v], DefaultDirectory>> :
              v \in LonValues}
    \cup {<<[DefaultPlotRequest EXCEPT !.min_lat = v], DefaultDirectory>> :
              v \in LatValues}
    \cup {<<[DefaultPlotRequest EXCEPT !.max_lat = v], DefaultDirectory>> :
              v \in LatValues}

(***************************************************************************)
(* PlotNAME._handler: helpers                                              *)
(***************************************************************************)
NumWeeks == 52
NumMonths == 12

Min(a, b) == IF a < b THEN a ELSE b

\* lines 166-169: what get_num_dates returns.  swallow.utils is not part of
\* the sources modelled: it is the number of plots expected for one group, a
\* positive count, small or large, whatever the files are
NumDates == (1..MaxTot) \cup {ManyDates}

\* lines 217, 239, 259, 281, 297, 310: 10 + int((made / float(tot)) * 85).
\* The float product truncates to the exact floor for every total below 5,
\* and for 6; it can fall one short of it elsewhere (made = 7, tot = 5 gives
\* 118, not 119).
Percent(made, tot) == 10 + ((made * 85) \div tot)

\* f with key k set to v (a dict assignment)
Put(f, k, v) == [x \in DOMAIN f \cup {k} |-> IF x = k THEN v ELSE f[x]]

\* f without key k
Drop(f, k) == [x \in DOMAIN f \ {k} |-> f[x]]

\* the file copied only when its group's directory is created
StagedOnCreate(dirs, grps, n, f) ==
    IF n \in DOMAIN grps
    THEN dirs
    ELSE Put(dirs, Cardinality(created) + 1, {f.name})

\* lines 182-186: the staging directories after one file is copied
Staged(dirs, grps, n, f) ==
    IF n \in DOMAIN grps
    THEN [dirs EXCEPT ![grps[n]] = @ \cup {f.name}]
    ELSE Put(dirs, Cardinality(created) + 1, {f.name})

\* lines 182-185: the groups dict after one file is copied
Grouped(grps, n) ==
    IF n \in DOMAIN grps THEN grps ELSE Put(grps, n, Cardinality(created) + 1)

\* line 196: the first of sorted(groups.items()) not yet taken
NextGroupNum ==
    CHOOSE g \in DOMAIN groups \ plotted :
        \A h \in DOMAIN groups \ plotted : g <= h

\* what drawMap leaves in the output directory: it writes an image, fails
\* before touching the directory, or fails after creating it.  Image names
\* are numbered as first written: the handler only counts them.
Drawn(how, name) ==
    CASE how = "saved"  -> [exists |-> TRUE, files |-> outdir.files \cup {name}]
      [] how = "failed_after_mkdir" -> [outdir EXCEPT !.exists = TRUE]
      [] OTHER -> outdir

\* lines 319-335
Packaged(dir) ==
    IF ~dir.exists THEN [format |-> "TEXT", files |-> {}]
    ELSE IF Cardinality(dir.files) = 1
        THEN [format |-> "image/png", files |-> dir.files]
    ELSE [format |-> "SHP", files |-> dir.files]

\* the days the day sums drawn for group g were made for
DaysDrawn(g) ==
    {renders[i].day : i \in {j \in 1..Len(renders) : renders[j].group = g}}

\* the number of drawMap calls made for group g
RendersOf(g) == Cardinality({i \in 1..Len(renders) : renders[i].group = g})

\* the counter incremented inside the try: a failed render is not counted
DrawMapCountsSaved(column, day) ==
    /\ \E how \in {"saved", "failed", "failed_after_mkdir"},
          name \in 1..Min(MaxNames, Cardinality(outdir.files) + 1) :
           /\ last_render' = how
           /\ outdir' = Drawn(how, name)
    /\ renders' = Append(renders, [group |-> cur, column |-> column, day |-> day])
    /\ plots_made' = IF last_render' = "saved" THEN plots_made + 1 ELSE plots_made
    /\ LET newper == Percent(plots_made', tot_plots)
       IN  IF oldper # newper
           THEN /\ status' = Append(status, <<"Plotting", newper>>)
                /\ oldper' = newper
           ELSE UNCHANGED <<status, oldper>>
    /\ UNCHANGED tot_plots

\* update_status called after every render, whatever the percentage
DrawMapAlwaysUpdates(column, day) ==
    /\ \E how \in {"saved", "failed", "failed_after_mkdir"},
          name \in 1..Min(MaxNames, Cardinality(outdir.files) + 1) :
           /\ last_render' = how
           /\ outdir' = Drawn(how, name)
    /\ renders' = Append(renders, [group |-> cur, column |-> column, day |-> day])
    /\ plots_made' = plots_made + 1
    /\ LET newper == Percent(plots_made', tot_plots)
       IN  /\ status' = Append(status, <<"Plotting", newper>>)
           /\ oldper' = newper
    /\ UNCHANGED tot_plots

\* one render attempt and the progress update after it, e.g. lines 211-220;
\* column is drawMap's second argument, day the day summed before it (0: none)
DrawMap(column, day) ==
    /\ \E how \in {"saved", "failed", "failed_after_mkdir"},
          name \in 1..Min(MaxNames, Cardinality(outdir.files) + 1) :
           /\ last_render' = how
           /\ outdir' = Drawn(how, name)
    /\ renders' = Append(renders, [group |-> cur, column |-> column, day |-> day])
    /\ plots_made' = plots_made + 1
    /\ LET newper == Percent(plots_made', tot_plots)
       IN  IF oldper # newper
           THEN /\ status' = Append(status, <<"Plotting", newper>>)
                /\ oldper' = newper
           ELSE UNCHANGED <<status, oldper>>
    /\ UNCHANGED tot_plots

(***************************************************************************)
(* PlotNAME._handler                                                       *)
(***************************************************************************)
InitPlot ==
    /\ proc = "plot"
    /\ pc = "bbox"
    /\ err = "none"
    /\ raised_at = "none"
    /\ status = <<>>
    /\ ElevIdle
    /\ RunIdle
    /\ \E input \in PlotInputs :
           /\ plot_request = input[1]
           /\ outputs_dir = input[2]
    /\ unlisted = {}
    /\ groups = <<>>
    /\ tmpdirs = <<>>
    /\ created = {}
    /\ tot_plots = 0
    /\ plots_made = 0
    /\ oldper = 0
    /\ cur = -1
    /\ plotted = {}
    /\ listing = {}
    /\ pending = 0
    /\ last_render = "none"
    /\ outdir = NoOutdir
    /\ result = NoResult
    /\ asked = plot_request.summarise
    /\ renders = <<>>
    /\ absent = {}

\* lines 121-128
PlotCheckBBox ==
    /\ proc = "plot" /\ pc = "bbox"
    /\ IF BBoxError(plot_request) # "none"
       THEN Raise(BBoxError(plot_request))
       ELSE Goto("glob")
    /\ UNCHANGED <<proc, status, elevVars, runVars, plotVars>>

\* lines 155-160
GlobOutputs ==
    /\ proc = "plot" /\ pc = "glob"
    /\ IF {f \in outputs_dir : f.glob} = {}
       THEN /\ Raise("InvalidParameterValue")
            /\ UNCHANGED plot_request
       ELSE /\ Goto("processed")
            /\ plot_request' = IF plot_request.timestamp
                               THEN [plot_request EXCEPT !.summarise = "NA"]
                               ELSE plot_request
    /\ UNCHANGED <<proc, status, elevVars, runVars, outputs_dir, grpVars,
                   progVars, loopVars, drawVars, result, histVars>>

\* lines 164-173: the first update, get_num_dates, the listing of outputs
PlotUpdateProcessed ==
    /\ proc = "plot" /\ pc = "processed"
    /\ status' = Append(status, <<"Processed plot parameters", 5>>)
    /\ tot_plots' \in NumDates
    /\ unlisted' = outputs_dir
    /\ Goto("grouping")
    /\ UNCHANGED <<proc, elevVars, runVars, plotIn, groups, tmpdirs, created,
                   plots_made, oldper, loopVars, drawVars, result, histVars>>

\* lines 173-186: one turn of the loop over os.listdir
GroupFile ==
    /\ proc = "plot" /\ pc = "grouping"
    /\ \E f \in unlisted :
        /\ unlisted' = unlisted \ {f}
        /\ IF ~f.txt
           THEN /\ Goto("grouping")
                /\ UNCHANGED <<groups, tmpdirs, created>>
           ELSE IF f.ch14 = ""
           THEN /\ Raise("IndexError")
                /\ UNCHANGED <<groups, tmpdirs, created>>
           ELSE IF ~IntParses(<<f.ch14>>)
           THEN /\ Raise("Exception")
                /\ UNCHANGED <<groups, tmpdirs, created>>
           ELSE LET n == PyInt(<<f.ch14>>) IN
                /\ Goto("grouping")
                /\ groups' = Grouped(groups, n)
                /\ tmpdirs' = Staged(tmpdirs, groups, n, f)
                /\ created' = created \cup {groups'[n]}
    /\ UNCHANGED <<proc, status, elevVars, runVars, plotIn, progVars,
                   loopVars, drawVars, result, histVars>>

\* lines 188-194
StartPlotting ==
    /\ proc = "plot" /\ pc = "grouping"
    /\ unlisted = {}
    /\ tot_plots' = tot_plots * Cardinality(DOMAIN groups)
    /\ plots_made' = 0
    /\ status' = Append(status, <<"Plotting", 10>>)
    /\ oldper' = 10
    /\ Goto("groups")
    /\ UNCHANGED <<proc, elevVars, runVars, plotIn, grpVars, loopVars,
                   drawVars, result, histVars>>

\* lines 196-200, 222, 244, 263-264: the next group is taken and its loop set up
StartGroup ==
    /\ proc = "plot" /\ pc = "groups"
    /\ DOMAIN groups \ plotted # {}
    /\ cur' = NextGroupNum
    /\ CASE plot_request.summarise = "week" ->
                pending' \in 0..Min(MaxBuckets, NumWeeks) /\ listing' = {}
         [] plot_request.summarise = "month" ->
                pending' \in 0..Min(MaxBuckets, NumMonths) /\ listing' = {}
         [] plot_request.summarise = "all" ->
                pending' = 1 /\ listing' = {}
         [] OTHER ->
                /\ pending' = 0
                /\ listing' = {f \in outputs_dir :
                                   f.name \in tmpdirs[groups[NextGroupNum]]}
    /\ absent' = {}
    /\ Goto("plot")
    /\ UNCHANGED <<proc, status, elevVars, runVars, plotIn, grpVars, progVars,
                   plotted, drawVars, result, asked, renders>>

\* lines 198, 202, 224, 245, 269, 286: Sum, a sum or Name raises
CollaboratorRaises ==
    /\ proc = "plot"
    /\ \/ /\ pc = "groups"
          /\ DOMAIN groups \ plotted # {}
          /\ plot_request.summarise # "NA"
       \/ /\ pc = "plot"
          /\ plot_request.summarise \in {"week", "month", "all"}
          /\ pending > 0
       \/ /\ pc = "plot"
          /\ plot_request.summarise \in {"day", "NA"}
          /\ pending = 0
          /\ \E f \in listing : f.glob
    /\ Raise("CollaboratorError")
    /\ UNCHANGED <<proc, status, elevVars, runVars, plotVars>>

\* lines 201-220, 223-242, 245-262: a week, a month or the whole run is drawn
PlotBucket ==
    /\ proc = "plot" /\ pc = "plot"
    /\ plot_request.summarise \in {"week", "month", "all"}
    /\ pending > 0
    /\ DrawMap("total", 0)
    /\ pending' = pending - 1
    /\ Goto("plot")
    /\ UNCHANGED <<proc, elevVars, runVars, plotIn, grpVars, cur, plotted,
                   listing, result, asked, absent>>

\* lines 264-265: a file of tmpdir that is no output file is passed over
SkipFile ==
    /\ proc = "plot" /\ pc = "plot"
    /\ plot_request.summarise \in {"day", "NA"}
    /\ pending = 0
    /\ \E f \in listing :
        /\ ~f.glob
        /\ listing' = listing \ {f}
    /\ Goto("plot")
    /\ UNCHANGED <<proc, status, elevVars, runVars, plotIn, grpVars, progVars,
                   cur, plotted, pending, drawVars, result, histVars>>

\* lines 266-284: the day sum of a file is drawn.  The day is the one
\* util.shortname reads in the file's name; days are numbered as first met.
PlotDay ==
    /\ proc = "plot" /\ pc = "plot"
    /\ plot_request.summarise = "day"
    /\ \E f \in listing :
        /\ f.glob
        /\ listing' = listing \ {f}
    /\ \E day \in 1..Min(MaxDays, Cardinality(DaysDrawn(cur)) + 1) :
           DrawMap("total", day)
    /\ Goto("plot")
    /\ UNCHANGED <<proc, elevVars, runVars, plotIn, grpVars, cur, plotted,
                   pending, result, asked, absent>>

\* the timestamp drawn and the loop over the files carried on
PlotTimestampNoBreak ==
    /\ proc = "plot" /\ pc = "plot"
    /\ plot_request.summarise = "NA" /\ plot_request.timestamp
    /\ \E f \in listing :
        /\ f.glob
        /\ listing' = listing \ {f}
    /\ DrawMap("timestamp", 0)
    /\ Goto("plot")
    /\ UNCHANGED <<proc, elevVars, runVars, plotIn, grpVars, cur, plotted,
                   pending, result, asked, absent>>

\* lines 285-301: the requested timestamp is in the file: drawn, and break
PlotTimestamp ==
    /\ proc = "plot" /\ pc = "plot"
    /\ plot_request.summarise = "NA" /\ plot_request.timestamp
    /\ \E f \in listing : f.glob
    /\ listing' = {}
    /\ DrawMap("timestamp", 0)
    /\ Goto("plot")
    /\ UNCHANGED <<proc, elevVars, runVars, plotIn, grpVars, cur, plotted,
                   pending, result, asked, absent>>

\* lines 285-290: the requested timestamp is not in the file
TimestampAbsent ==
    /\ proc = "plot" /\ pc = "plot"
    /\ plot_request.summarise = "NA" /\ plot_request.timestamp
    /\ \E f \in listing :
        /\ f.glob
        /\ listing' = listing \ {f}
        /\ absent' = absent \cup {f.name}
    /\ Goto("plot")
    /\ UNCHANGED <<proc, status, elevVars, runVars, plotIn, grpVars, progVars,
                   cur, plotted, pending, drawVars, result, asked, renders>>

\* lines 286, 302-303: a raw file is read, with its time buckets
ReadFile ==
    /\ proc = "plot" /\ pc = "plot"
    /\ plot_request.summarise = "NA" /\ ~plot_request.timestamp
    /\ pending = 0
    /\ \E f \in listing :
        /\ f.glob
        /\ listing' = listing \ {f}
    /\ pending' \in 0..MaxCols
    /\ Goto("plot")
    /\ UNCHANGED <<proc, status, elevVars, runVars, plotIn, grpVars, progVars,
                   cur, plotted, drawVars, result, histVars>>

\* lines 303-313: one time bucket of the file is drawn
PlotColumn ==
    /\ proc = "plot" /\ pc = "plot"
    /\ plot_request.summarise = "NA" /\ ~plot_request.timestamp
    /\ pending > 0
    /\ DrawMap("column", 0)
    /\ pending' = pending - 1
    /\ Goto("plot")
    /\ UNCHANGED <<proc, elevVars, runVars, plotIn, grpVars, cur, plotted,
                   listing, result, asked, absent>>

\* the directory removed only when the last render did not fail
RemoveTmpdirUnlessFailed ==
    /\ proc = "plot" /\ pc = "plot"
    /\ listing = {} /\ pending = 0
    /\ tmpdirs' = IF last_render = "failed"
                  THEN tmpdirs
                  ELSE Drop(tmpdirs, groups[cur])
    /\ plotted' = plotted \cup {cur}
    /\ Goto("groups")
    /\ UNCHANGED <<proc, status, elevVars, runVars, plotIn, unlisted, groups,
                   created, progVars, cur, listing, pending, drawVars, result,
                   histVars>>

\* lines 315-316
RemoveTmpdir ==
    /\ proc = "plot" /\ pc = "plot"
    /\ listing = {} /\ pending = 0
    /\ tmpdirs' = Drop(tmpdirs, groups[cur])
    /\ plotted' = plotted \cup {cur}
    /\ Goto("groups")
    /\ UNCHANGED <<proc, status, elevVars, runVars, plotIn, unlisted, groups,
                   created, progVars, cur, listing, pending, drawVars, result,
                   histVars>>

\* line 319
UpdateFormatting ==
    /\ proc = "plot" /\ pc = "groups"
    /\ DOMAIN groups \ plotted = {}
    /\ status' = Append(status, <<"Formatting output", 95>>)
    /\ Goto("package")
    /\ UNCHANGED <<proc, elevVars, runVars, plotVars>>

\* lines 320-335
Package ==
    /\ proc = "plot" /\ pc = "package"
    /\ result' = Packaged(outdir)
    /\ Goto("done")
    /\ UNCHANGED <<proc, status, elevVars, runVars, plotIn, grpVars, progVars,
                   loopVars, drawVars, histVars>>

\* lines 337-338
PlotUpdateDone ==
    /\ proc = "plot" /\ pc = "done"
    /\ status' = Append(status, <<"done", 100>>)
    /\ Goto("returned")
    /\ UNCHANGED <<proc, elevVars, runVars, plotVars>>

NextPlot ==
    \/ PlotCheckBBox
    \/ GlobOutputs
    \/ PlotUpdateProcessed
    \/ GroupFile
    \/ StartPlotting
    \/ StartGroup
    \/ CollaboratorRaises
    \/ PlotBucket
    \/ SkipFile
    \/ PlotDay
    \/ PlotTimestamp
    \/ TimestampAbsent
    \/ ReadFile
    \/ PlotColumn
    \/ RemoveTmpdir
    \/ UpdateFormatting
    \/ Package
    \/ PlotUpdateDone

Spec == InitPlot /\ [][NextPlot]_vars

(***************************************************************************)
(* Properties of PlotNAME                                                  *)
(***************************************************************************)
\* C1: the percentages passed to update_status never decrease, no 'Plotting'
\* update exceeds the 95 of 'Formatting output', and 100 is emitted once, as
\* the last update, after packaging.
C1_ProgressMonotone ==
    proc = "plot" =>
        /\ \A i \in 1..(Len(status) - 1) : status[i][2] <= status[i + 1][2]
        /\ \A i \in 1..Len(status) :
               status[i][1] = "Plotting" => status[i][2] <= 95
        /\ \A i \in 1..Len(status) :
               status[i][2] = 100 =>
                   i = Len(status) /\ status[i][1] = "done" /\ result # NoResult

\* C2: a group's staging directory exists while the group is plotted and is
\* removed when its plotting has finished, before the next group is plotted,
\* whether renders failed or not; at packaging none is left.
C2_StagingRemoved ==
    proc = "plot" =>
        /\ (pc = "plot" =>
               /\ groups[cur] \in DOMAIN tmpdirs
               /\ \A g \in DOMAIN groups :
                      g < cur => groups[g] \notin DOMAIN tmpdirs)
        /\ (pc \in {"plot", "groups"} =>
               \A g \in plotted : groups[g] \notin DOMAIN tmpdirs)
        /\ (pc \in {"package", "done", "returned"} =>
               /\ plotted = DOMAIN groups
               /\ DOMAIN tmpdirs = {}
               /\ created # {})

C2_Witness ==
    /\ proc = "plot"
    /\ pc = "package"
    /\ Cardinality(created) = 2
    /\ last_render = "failed"
    /\ DOMAIN tmpdirs = {}

\* C9: no output file gives the text result, one file gives that file as an
\* image, two or more give a zip archive of exactly those files.
C9_PackagedByFileCount ==
    (proc = "plot" /\ pc \in {"done", "returned"}) =>
        /\ (Cardinality(outdir.files) = 0 => result.format = "TEXT")
        /\ (Cardinality(outdir.files) = 1 =>
               result.format = "image/png" /\ result.files = outdir.files)
        /\ (Cardinality(outdir.files) >= 2 =>
               result.format = "SHP" /\ result.files = outdir.files)

TxtFiles == {f \in outputs_dir : f.txt}

HasIndex(f) == f.ch14 # "" /\ IntParses(<<f.ch14>>)

GroupIndex(f) == PyInt(<<f.ch14>>)

\* the grouping loop has ended and no staging directory is removed yet
GroupingDone ==
    /\ proc = "plot"
    /\ \/ pc = "grouping" /\ unlisted = {}
       \/ pc \in {"groups", "plot"} /\ plotted = {}

\* C10: one staging directory per distinct group index, every output file in
\* the directory of its own group and in no other; a file whose index is not
\* an integer makes grouping fail.
C10_GroupsPartitionFiles ==
    /\ (proc = "plot" /\ pc \in {"grouping", "groups", "plot"} /\ plotted = {} =>
           /\ \A g \in DOMAIN groups : groups[g] \in DOMAIN tmpdirs
           /\ \A g \in DOMAIN groups, h \in DOMAIN groups :
                  groups[g] = groups[h] => g = h
           /\ DOMAIN tmpdirs = {groups[g] : g \in DOMAIN groups}
           /\ \A f \in TxtFiles \ unlisted :
                  /\ HasIndex(f)
                  /\ GroupIndex(f) \in DOMAIN groups
                  /\ \A d \in DOMAIN tmpdirs :
                         f.name \in tmpdirs[d] <=> d = groups[GroupIndex(f)])
    /\ (GroupingDone =>
           /\ \A f \in TxtFiles : HasIndex(f)
           /\ DOMAIN groups = {GroupIndex(f) : f \in TxtFiles}
           /\ created = {groups[g] : g \in DOMAIN groups}
           /\ Cardinality(created) = Cardinality({GroupIndex(f) : f \in TxtFiles})
           /\ Cardinality(DOMAIN tmpdirs) =
                  Cardinality({GroupIndex(f) : f \in TxtFiles})
           /\ \A g \in DOMAIN groups :
                  tmpdirs[groups[g]] =
                      {f.name : f \in {x \in TxtFiles : GroupIndex(x) = g}})
    /\ (proc = "plot" /\ (\E f \in TxtFiles : ~HasIndex(f)) =>
           pc \notin {"groups", "plot", "package", "done", "returned"})
    /\ (proc = "plot" /\ raised_at = "grouping" =>
           /\ err \in {"Exception", "IndexError"}
           /\ \E f \in TxtFiles \ unlisted : ~HasIndex(f))

C10_Witness ==
    /\ GroupingDone
    /\ pc = "groups"
    /\ Cardinality(outputs_dir) = 3
    /\ DOMAIN groups = {1, 2}
    /\ Cardinality(tmpdirs[groups[1]]) = 2
    /\ Cardinality(tmpdirs[groups[2]]) = 1

\* the steps of the group loop that raise nothing
GroupLoopStep ==
    \/ PlotBucket
    \/ SkipFile
    \/ PlotDay
    \/ PlotTimestamp
    \/ TimestampAbsent
    \/ ReadFile
    \/ PlotColumn
    \/ RemoveTmpdir
    \/ StartGroup
    \/ UpdateFormatting

Failed == {"failed", "failed_after_mkdir"}

\* C11: a drawMap call that raises never ends the group or the request: the
\* render counter counts it like any other attempt, the handler stays in the
\* group loop with a next step to take (the next bucket, file or group, or
\* the removal of the staging directory), nothing is raised by the render,
\* and a handler that returns has removed every staging directory and ended
\* with the 'done' 100 update after packaging.
C11_RenderFailureNotFatal ==
    proc = "plot" =>
        /\ plots_made = Len(renders)
        /\ (last_render \in Failed =>
               /\ pc \in {"plot", "groups", "package", "done", "returned", "raised"}
               /\ (pc = "raised" =>
                      err = "CollaboratorError" /\ raised_at \in {"plot", "groups"})
               /\ (pc \in {"plot", "groups"} => ENABLED GroupLoopStep)
               /\ (pc \in {"package", "done", "returned"} =>
                      /\ DOMAIN tmpdirs = {}
                      /\ plotted = DOMAIN groups)
               /\ (pc = "returned" =>
                      /\ result = Packaged(outdir)
                      /\ status[Len(status)] = <<"done", 100>>
                      /\ status[Len(status) - 1] = <<"Formatting output", 95>>))

\* two renders failed one after the other and the handler returned
C11_Witness ==
    /\ proc = "plot"
    /\ pc = "returned"
    /\ Len(renders) = 2
    /\ plots_made = 2
    /\ last_render = "failed"
    /\ ~outdir.exists
    /\ DOMAIN tmpdirs = {}
    /\ status[Len(status)] = <<"done", 100>>

\* C14: in 'day' mode a group whose files cover d distinct days gets exactly
\* d render attempts, and as many increments of the render counter, also
\* when several of its files fall on the same day.
C14_OneRenderPerDistinctDay ==
    (proc = "plot" /\ plot_request.summarise = "day") =>
        /\ \A g \in plotted : RendersOf(g) = Cardinality(DaysDrawn(g))
        /\ (pc \in {"package", "done", "returned"} =>
               plots_made = Cardinality({<<renders[i].group, renders[i].day>> :
                                            i \in 1..Len(renders)}))

\* the output files staged for group g that the file loop reads
OutputFilesOf(g) ==
    {f.name : f \in {x \in outputs_dir :
                         x.glob /\ x.txt /\ HasIndex(x) /\ GroupIndex(x) = g}}

\* C15: with a timestamp the summarisation is NA whatever was asked; each
\* group gets one render, of the requested timestamp, when one of its files
\* holds it, and the files after that one are not read; it gets none when
\* every file was read and none holds it; no other column is ever drawn.
C15_TimestampRenderedOncePerGroup ==
    (proc = "plot" /\ plot_request.timestamp) =>
        /\ (pc \notin {"bbox", "glob"} /\ raised_at \notin {"bbox", "glob"} =>
               plot_request.summarise = "NA")
        /\ \A i \in 1..Len(renders) : renders[i].column = "timestamp"
        /\ \A g \in DOMAIN groups : RendersOf(g) <= 1
        /\ (pc = "plot" /\ RendersOf(cur) = 1 => listing = {})
        /\ (pc = "groups" /\ cur \in plotted =>
               /\ absent \subseteq OutputFilesOf(cur)
               /\ (RendersOf(cur) = 1 => absent # OutputFilesOf(cur))
               /\ (RendersOf(cur) = 0 => absent = OutputFilesOf(cur)))

\* 'week' was asked with a timestamp: group 1, of two files, held it and
\* group 2 did not
C15_Witness ==
    /\ proc = "plot"
    /\ pc = "groups"
    /\ plot_request.timestamp
    /\ asked = "week"
    /\ plotted = {1, 2}
    /\ Cardinality(OutputFilesOf(1)) = 2
    /\ RendersOf(1) = 1
    /\ RendersOf(2) = 0
    /\ absent = OutputFilesOf(2)
    /\ absent # {}

\* the handler is past line 194
PlottingStarted ==
    /\ proc = "plot"
    /\ \/ pc \in {"groups", "plot", "package", "done", "returned"}
       \/ pc = "raised" /\ raised_at \in {"groups", "plot"}

\* the percentages of the 'Plotting' updates, in order
PlottingUpdates ==
    LET idx == {i \in 1..Len(status) : status[i][1] = "Plotting"}
        Nth(n) == CHOOSE i \in idx : Cardinality({j \in idx : j <= i}) = n
    IN  [n \in 1..Cardinality(idx) |-> status[Nth(n)][2]]

\* the percentage after k renders: 10 before the first
PercentAfter(k) == IF k = 0 THEN 10 ELSE 10 + ((k * 85) \div tot_plots)

C17_NoStagingLeftOnError ==
    (proc = "plot" /\ pc = "raised" /\ raised_at \in {"grouping", "groups", "plot"}) =>
        DOMAIN tmpdirs = {}

====
